---------------------------- MODULE Spec2Model ----------------------------
(* canaryscan (src/main.c): the process reads its stack canary, parses     *)
(* /proc/self/maps into a list of ranges and scans every readable range    *)
(* through /proc/self/mem, printing the addresses where the canary shows.  *)
(*                                                                         *)
(* A 64-bit value (uintptr_t, size_t) is a tuple of four 16-bit limbs,     *)
(* least significant first: TLC's integers are 32 bits wide.  A character  *)
(* is a string of length one and a C string is a sequence of characters.   *)
EXTENDS Integers, Sequences, FiniteSets, TLC

\* ------------------------------------------------------------ bounds
\* Longest argument vector (argv[0] not counted) the model starts from.
MaxArgs == 2
\* Most lines the memory-map source holds.
MaxLines == 2

\* ------------------------------------------------- program constants
EXIT_SUCCESS == 0
EXIT_FAILURE == 1
\* sizeof(uintptr_t), the stride of the scan and the size of one read.
WordBytes == 8

\* --------------------------------------------------- 64-bit arithmetic
\* 2^16: one limb holds 16 bits.
Limb == 256 * 256

U64Zero == <<0, 0, 0, 0>>

\* The 64-bit value of a natural number below 2^31.
U64OfNat(n) ==
  <<n % Limb, n \div Limb, 0, 0>>

\* a + b modulo 2^64.
U64Add(a, b) ==
  LET s1 == a[1] + b[1]
      s2 == a[2] + b[2] + (s1 \div Limb)
      s3 == a[3] + b[3] + (s2 \div Limb)
      s4 == a[4] + b[4] + (s3 \div Limb)
  IN  <<s1 % Limb, s2 % Limb, s3 % Limb, s4 % Limb>>

\* a - b modulo 2^64 (\div floors, so a negative limb borrows one).
U64Sub(a, b) ==
  LET d1 == a[1] - b[1]
      d2 == a[2] - b[2] + (d1 \div Limb)
      d3 == a[3] - b[3] + (d2 \div Limb)
      d4 == a[4] - b[4] + (d3 \div Limb)
  IN  <<d1 % Limb, d2 % Limb, d3 % Limb, d4 % Limb>>

\* a * m modulo 2^64, for a multiplier 0 <= m <= 2^15.
U64MulSmall(a, m) ==
  LET p1 == a[1] * m
      p2 == a[2] * m + (p1 \div Limb)
      p3 == a[3] * m + (p2 \div Limb)
      p4 == a[4] * m + (p3 \div Limb)
  IN  <<p1 % Limb, p2 % Limb, p3 % Limb, p4 % Limb>>

\* a < b, unsigned.
U64Lt(a, b) ==
  \/ a[4] < b[4]
  \/ a[4] = b[4] /\ a[3] < b[3]
  \/ a[4] = b[4] /\ a[3] = b[3] /\ a[2] < b[2]
  \/ a[4] = b[4] /\ a[3] = b[3] /\ a[2] = b[2] /\ a[1] < b[1]

U64Le(a, b) ==
  a = b \/ U64Lt(a, b)

\* The low n bytes of w (little-endian), the other bytes zero: what a
\* read of n bytes leaves in an 8-byte buffer that was zero before.
LowBytes(w, n) ==
  [i \in 1..4 |->
     IF n >= 2 * i THEN w[i]
     ELSE IF n = 2 * i - 1 THEN w[i] % 256
     ELSE 0]

\* ------------------------------------------------------------ strtoll
\* LLONG_MAX, 0x7fffffffffffffff: what strtoll returns on overflow.
LLONG_MAX == <<65535, 65535, 65535, 32767>>

IsXDigit(c) ==
  c \in {"0", "1", "2", "3", "4", "5", "6", "7", "8", "9",
         "a", "b", "c", "d", "e", "f", "A", "B", "C", "D", "E", "F"}

XDigitVal(c) ==
  CASE c = "0" -> 0 [] c = "1" -> 1 [] c = "2" -> 2 [] c = "3" -> 3
    [] c = "4" -> 4 [] c = "5" -> 5 [] c = "6" -> 6 [] c = "7" -> 7
    [] c = "8" -> 8 [] c = "9" -> 9
    [] c \in {"a", "A"} -> 10 [] c \in {"b", "B"} -> 11
    [] c \in {"c", "C"} -> 12 [] c \in {"d", "D"} -> 13
    [] c \in {"e", "E"} -> 14 [] c \in {"f", "F"} -> 15

\* The longest prefix of s made of hexadecimal digits.
RECURSIVE XDigitPrefix(_)
XDigitPrefix(s) ==
  IF s = <<>> \/ ~IsXDigit(Head(s)) THEN <<>>
  ELSE <<Head(s)>> \o XDigitPrefix(Tail(s))

\* strtoll(s, NULL, 16) of an unsigned, unprefixed token, digit by digit:
\* [val, range], range set once the value has passed LLONG_MAX (strtoll
\* then returns LLONG_MAX and sets errno to ERANGE).
RECURSIVE StrtollAcc(_, _, _)
StrtollAcc(digits, acc, over) ==
  IF digits = <<>> THEN [val |-> IF over THEN LLONG_MAX ELSE acc, range |-> over]
  ELSE LET d == XDigitVal(Head(digits))
           \* acc * 16 + d exceeds LLONG_MAX iff acc >= 2^59
           ovf == over \/ acc[4] >= 2048
       IN  StrtollAcc(Tail(digits),
                      IF ovf THEN acc ELSE U64Add(U64MulSmall(acc, 16), U64OfNat(d)),
                      ovf)

Strtoll16(s) ==
  StrtollAcc(XDigitPrefix(s), U64Zero, FALSE)

\* ------------------------------------------------------------- strtok
\* One call of strtok on buffer buf, resuming at position pos: skip the
\* delimiters, take the characters up to the next delimiter (or the end).
\* null: no token is left; next: where the following call resumes.
RECURSIVE SkipDelim(_, _, _)
SkipDelim(buf, pos, delim) ==
  IF pos <= Len(buf) /\ buf[pos] = delim THEN SkipDelim(buf, pos + 1, delim)
  ELSE pos

RECURSIVE TokenEnd(_, _, _)
TokenEnd(buf, pos, delim) ==
  IF pos <= Len(buf) /\ buf[pos] # delim THEN TokenEnd(buf, pos + 1, delim)
  ELSE pos

Strtok(buf, pos, delim) ==
  LET b == SkipDelim(buf, pos, delim)
      e == TokenEnd(buf, b, delim)
  IN  [null |-> b > Len(buf),
       tok  |-> SubSeq(buf, b, e - 1),
       next |-> IF e > Len(buf) THEN e ELSE e + 1]

\* ------------------------------------------------------- the map lines
\* IsKernelRange testing for the small letter only.
IsKernelRange_LowerOnly(range_str) ==
  range_str[1] = "f"

\* The test for kernel space memory: the first character of the range
\* string is F or f.
IsKernelRange(range_str) ==
  range_str[1] = "F" \/ range_str[1] = "f"

\* The tokens get_ranges takes out of one line, in the order of its strtok
\* calls: the range string, the permissions and the offset out of the line,
\* then begin and end out of the copy of the range string.
LineTokens(line) ==
  LET t1 == Strtok(line, 1, " ")
      t2 == Strtok(line, t1.next, " ")
      t3 == Strtok(line, t2.next, " ")
      t4 == Strtok(t1.tok, 1, "-")
      t5 == Strtok(t1.tok, t4.next, " ")
  IN  [range_str |-> t1.tok, perms |-> t2.tok, offset |-> t3.tok,
       begin |-> t4.tok, end |-> t5.tok]

\* The node get_ranges builds from a line it keeps.  Beside the fields of
\* range_t it carries the local end (for the assert), range (one of the
\* three strtoll calls overflowed and set errno) and src, the number of
\* the line it was built from.
MakeNode(line, n) ==
  LET t     == LineTokens(line)
      off   == Strtoll16(t.offset)
      begin == Strtoll16(t.begin)
      end   == Strtoll16(t.end)
  IN  [begin  |-> begin.val,
       perms  |-> t.perms,
       offset |-> off.val,
       size   |-> U64Sub(end.val, begin.val),
       end    |-> end.val,
       range  |-> off.range \/ begin.range \/ end.range,
       src    |-> n]

\* is_read without the test of the begin address.
is_read_PermsOnly(range) ==
  range.perms[1] = "r"

\* is_read: the permissions start with r and the begin address is outside
\* the range whose bits 52..62 are all set.
is_read(range) ==
  /\ range.perms[1] = "r"
  /\ (range.begin[4] % 32768) \div 16 # 2047

\* The address scan_range prints for iteration itr:
\* (uintptr_t *)begin + itr * sizeof(uintptr_t) + offset, pointer
\* arithmetic on 8-byte elements.
ScanAddr(range, itr) ==
  U64Add(range.begin,
         U64MulSmall(U64Add(U64MulSmall(itr, WordBytes), range.offset), WordBytes))

\* The file offset scan_range hands to pread.
PreadOffset(range, itr) ==
  U64Zero

\* The test that makes scan_range print an address.
IsMatch(r, d, c) ==
  r > 0 /\ d = c

\* ------------------------------------------------------------- inputs
\* The arguments the model tries: -q, -h, an unknown flag, a word that is
\* no flag, a lone dash, and -q followed by more characters.
ArgTokens ==
  { <<"-", "q">>, <<"-", "h">>, <<"-", "x">>, <<"x">>, <<"-">>,
    <<"-", "q", "x">> }

RECURSIVE SeqsUpTo(_, _)
SeqsUpTo(S, n) ==
  IF n = 0 THEN { <<>> }
  ELSE LET shorter == SeqsUpTo(S, n - 1)
       IN  shorter \cup { Append(q, x) : q \in shorter, x \in S }

ArgVectors == SeqsUpTo(ArgTokens, MaxArgs)

\* The values %fs:0x28 may hold: one whose upper four bytes are zero
\* (0x0000000012345600) and one that fills the word (0x9a3c55e17b20d400).
CanaryValues ==
  { <<22016, 4660, 0, 0>>, <<54272, 31520, 21985, 39484>> }

\* A word that is no canary value: 0xdeadbeef12345600.
OtherWord == <<22016, 4660, 48879, 57005>>

\* What open(2) leaves in errno when it fails: ENOENT, EACCES.
OpenErrnos == {2, 13}

\* What pread(2) may return for a request of 8 bytes: an error, end of
\* file, a short read, a full read.
PreadReturns == {-1, 0, 4, 8}

Space == <<" ">>

\* A line of the memory map: start-end perms offset dev inode [path].
MapLine(start, end, perms, off) ==
  start \o <<"-">> \o end \o Space \o perms \o Space \o off \o Space
    \o <<"0", "8", ":", "0", "1">> \o Space \o <<"7">> \o <<"\n">>

\* 00400000-00400010 r-xp 00000000: readable, two words.
LineText ==
  MapLine(<<"0","0","4","0","0","0","0","0">>, <<"0","0","4","0","0","0","1","0">>,
          <<"r","-","x","p">>, <<"0","0","0","0","0","0","0","0">>)

\* 00500000-00500008 rw-p 00002000: readable, one word, a file offset.
LineData ==
  MapLine(<<"0","0","5","0","0","0","0","0">>, <<"0","0","5","0","0","0","0","8">>,
          <<"r","w","-","p">>, <<"0","0","0","0","2","0","0","0">>)

\* 00601000-00601008 ---p 00000000: not readable.
LineGuard ==
  MapLine(<<"0","0","6","0","1","0","0","0">>, <<"0","0","6","0","1","0","0","8">>,
          <<"-","-","-","p">>, <<"0","0","0","0","0","0","0","0">>)

\* ffffffffff600000-ffffffffff601000 r-xp 00000000: the vsyscall page.
LineKernel ==
  MapLine(<<"f","f","f","f","f","f","f","f","f","f","6","0","0","0","0","0">>,
          <<"f","f","f","f","f","f","f","f","f","f","6","0","1","0","0","0">>,
          <<"r","-","x","p">>, <<"0","0","0","0","0","0","0","0">>)

\* The same line in capitals.
LineKernelUpper ==
  MapLine(<<"F","F","F","F","F","F","F","F","F","F","6","0","0","0","0","0">>,
          <<"F","F","F","F","F","F","F","F","F","F","6","0","1","0","0","0">>,
          <<"r","-","x","p">>, <<"0","0","0","0","0","0","0","0">>)

\* 7ff0000000000000-7ff0000000000008 r--p 00000000: readable, in the range
\* is_read leaves out.
LineReserved ==
  MapLine(<<"7","f","f","0","0","0","0","0","0","0","0","0","0","0","0","0">>,
          <<"7","f","f","0","0","0","0","0","0","0","0","0","0","0","0","8">>,
          <<"r","-","-","p">>, <<"0","0","0","0","0","0","0","0">>)

\* 8000000000000000-8000000000000010 r--p 00000000: above LLONG_MAX.
LineHigh ==
  MapLine(<<"8","0","0","0","0","0","0","0","0","0","0","0","0","0","0","0">>,
          <<"8","0","0","0","0","0","0","0","0","0","0","0","0","0","1","0">>,
          <<"r","-","-","p">>, <<"0","0","0","0","0","0","0","0">>)

MapLines ==
  { LineText, LineData, LineGuard, LineKernel, LineKernelUpper,
    LineReserved, LineHigh }

\* The contents /proc/self/maps may have.
MapSources == SeqsUpTo(MapLines, MaxLines)

\* The addresses whose contents the model tracks: address 0 and the words
\* of the two readable lines.
MemAddrs ==
  { U64Zero, <<0, 64, 0, 0>>, <<8, 64, 0, 0>>, <<0, 80, 0, 0>> }

\* The memory images: each tracked word holds the canary c or OtherWord.
MemImages(c) ==
  [MemAddrs -> {c, OtherWord}]

\* -------------------------------------------------------------- state
VARIABLES
  pc,            \* where the process is: args, canary, mode, get_ranges,
                 \* getline, scan, loop, exited
  ndebug,        \* the build: TRUE when NDEBUG is defined
  argv,          \* the arguments after argv[0]
  quiet_mode,    \* main's quiet_mode
  canary,        \* the global canary
  canary_writes, \* how often canary has been assigned
  errno,
  exit,          \* how the process ended: [how, code]
  out,           \* what was printed (stdout and stderr), in order
  mem_fd,        \* /proc/self/mem: unopened, open, closed
  mem_opens,     \* how often /proc/self/mem was opened
  mem,           \* the contents of memory behind the handle
  maps_fp,       \* /proc/self/maps: unopened, open, closed
  maps_opens,    \* how often /proc/self/maps was opened
  maps,          \* the lines of /proc/self/maps
  lineno,        \* the number of the next line getline returns
  ranges,        \* the list get_ranges builds, head first
  rr,            \* main's cursor in the list (Len(ranges) + 1: NULL)
  itr,           \* scan_range's itr
  addr,          \* scan_range's addr, data and the value of its pread,
  data,          \*   as the last iteration left them
  ret,
  reads          \* the pread calls issued: [rr, itr, off]

vars ==
  <<pc, ndebug, argv, quiet_mode, canary, canary_writes, errno, exit, out,
    mem_fd, mem_opens, mem, maps_fp, maps_opens, maps, lineno, ranges, rr,
    itr, addr, data, ret, reads>>

\* One printed line: what it is, the value it shows, and the line or the
\* range it is about.
Ev(kind, val, idx) ==
  [ev |-> kind, val |-> val, idx |-> idx]

Running == [how |-> "running", code |-> 0]

Exited(code) == [how |-> "exit", code |-> code]

\* strtoll's errno on overflow (ERANGE).
ERANGE == 34

\* pread's errno when it fails (EIO).
EIO == 5

Init ==
  /\ pc = "args"
  /\ ndebug \in BOOLEAN
  /\ argv \in ArgVectors
  /\ quiet_mode = FALSE
  /\ canary = U64Zero
  /\ canary_writes = 0
  /\ errno = 0
  /\ exit = Running
  /\ out = <<>>
  /\ mem_fd = "unopened"
  /\ mem_opens = 0
  /\ mem = [a \in MemAddrs |-> U64Zero]
  /\ maps_fp = "unopened"
  /\ maps_opens = 0
  /\ maps = <<>>
  /\ lineno = 0
  /\ ranges = <<>>
  /\ rr = 0
  /\ itr = U64Zero
  /\ addr = U64Zero
  /\ data = U64Zero
  /\ ret = 0
  /\ reads = <<>>

\* ----------------------------------------------------------- main: args
\* argv[i][j] of an argument: the terminating NUL past its end.
CharAt(arg, j) ==
  IF j + 1 <= Len(arg) THEN arg[j + 1] ELSE "NUL"

\* The argument loop of main from argument i on: what it prints and how
\* it ends (usage, failure) or goes on (run) with quiet_mode q.
RECURSIVE ArgLoop(_, _, _)
ArgLoop(args, i, q) ==
  IF i > Len(args) THEN [end |-> "run", quiet |-> q]
  ELSE IF CharAt(args[i], 0) # "-" THEN [end |-> "failure", quiet |-> q]
  ELSE IF CharAt(args[i], 1) = "h" THEN [end |-> "usage", quiet |-> q]
  ELSE IF CharAt(args[i], 1) = "q" THEN ArgLoop(args, i + 1, TRUE)
  ELSE [end |-> "failure", quiet |-> q]

\* main's argument handling with the assignment to quiet_mode lost.
ParseArgsResult_QuietLost(args) ==
  IF Len(args) + 1 > 2 THEN [end |-> "usage", quiet |-> FALSE]
  ELSE [end |-> ArgLoop(args, 1, FALSE).end, quiet |-> FALSE]

\* main's argument handling: more than one argument is usage(), which
\* exits with EXIT_SUCCESS; otherwise the loop.
ParseArgsResult(args) ==
  IF Len(args) + 1 > 2 THEN [end |-> "usage", quiet |-> FALSE]
  ELSE ArgLoop(args, 1, FALSE)

ParseArgs ==
  /\ pc = "args"
  /\ LET r == ParseArgsResult(argv)
     IN  /\ quiet_mode' = r.quiet
         /\ CASE r.end = "usage" ->
                   /\ out' = Append(out, Ev("usage", U64Zero, 0))
                   /\ exit' = Exited(EXIT_SUCCESS)
                   /\ pc' = "exited"
              [] r.end = "failure" ->
                   /\ out' = Append(out, Ev("unexpected_flag", U64Zero, 0))
                   /\ exit' = Exited(EXIT_FAILURE)
                   /\ pc' = "exited"
              [] OTHER ->
                   /\ out' = out
                   /\ exit' = exit
                   /\ pc' = "canary"
  /\ UNCHANGED <<ndebug, argv, canary, canary_writes, errno, mem_fd,
                 mem_opens, mem, maps_fp, maps_opens, maps, lineno, ranges,
                 rr, itr, addr, data, ret, reads>>

\* asm: mov %fs:0x28 into canary.
ReadCanary ==
  /\ pc = "canary"
  /\ \E v \in CanaryValues : canary' = v
  /\ canary_writes' = canary_writes + 1
  /\ pc' = "mode"
  /\ UNCHANGED <<ndebug, argv, quiet_mode, errno, exit, out, mem_fd,
                 mem_opens, mem, maps_fp, maps_opens, maps, lineno, ranges,
                 rr, itr, addr, data, ret, reads>>

\* Quiet mode: print the canary and exit.
QuietMode ==
  /\ pc = "mode"
  /\ quiet_mode
  /\ out' = Append(out, Ev("canary_quiet", canary, 0))
  /\ exit' = Exited(EXIT_SUCCESS)
  /\ pc' = "exited"
  /\ UNCHANGED <<ndebug, argv, quiet_mode, canary, canary_writes, errno,
                 mem_fd, mem_opens, mem, maps_fp, maps_opens, maps, lineno,
                 ranges, rr, itr, addr, data, ret, reads>>

\* Scan mode: print the canary and open /proc/self/mem; a failed open
\* prints the error and exits with errno.
ScanMode ==
  /\ pc = "mode"
  /\ ~quiet_mode
  /\ \E ok \in BOOLEAN :
       IF ok
       THEN /\ out' = Append(out, Ev("canary", canary, 0))
            /\ mem_fd' = "open"
            /\ mem_opens' = mem_opens + 1
            /\ mem' \in MemImages(canary)
            /\ pc' = "get_ranges"
            /\ UNCHANGED <<errno, exit>>
       ELSE \E e \in OpenErrnos :
            /\ errno' = e
            /\ out' = out \o <<Ev("canary", canary, 0), Ev("open_error", U64Zero, e)>>
            /\ exit' = Exited(e)
            /\ pc' = "exited"
            /\ UNCHANGED <<mem_fd, mem_opens, mem>>
  /\ UNCHANGED <<ndebug, argv, quiet_mode, canary, canary_writes, maps_fp,
                 maps_opens, maps, lineno, ranges, rr, itr, addr, data, ret,
                 reads>>

\* ---------------------------------------------------------- get_ranges
\* What fopen(3) leaves in errno when it fails: ENOENT, EMFILE.
FopenErrnos == {2, 24}

\* fopen of /proc/self/maps.  When it fails it sets errno; assert(fp) then
\* prints its message and aborts the debug build, and the NDEBUG build
\* hands the null stream to getline, which is undefined and ends in a
\* fault.
GetRangesOpen ==
  /\ pc = "get_ranges"
  /\ \E ok \in BOOLEAN :
       IF ok
       THEN /\ maps_fp' = "open"
            /\ maps_opens' = maps_opens + 1
            /\ maps' \in MapSources
            /\ lineno' = 1
            /\ ranges' = <<>>
            /\ pc' = "getline"
            /\ UNCHANGED <<exit, errno, out>>
       ELSE \E e \in FopenErrnos :
            /\ errno' = e
            /\ out' = IF ndebug THEN out
                      ELSE Append(out, Ev("assert_failed", U64Zero, 0))
            /\ exit' = [how |-> IF ndebug THEN "fault" ELSE "abort", code |-> 0]
            /\ pc' = "exited"
            /\ UNCHANGED <<maps_fp, maps_opens, maps, lineno, ranges>>
  /\ UNCHANGED <<ndebug, argv, quiet_mode, canary, canary_writes,
                 mem_fd, mem_opens, mem, rr, itr, addr, data, ret, reads>>

\* The debug build's lines.
Debug(events) ==
  IF ndebug THEN <<>> ELSE events

\* One iteration of the getline loop: a kernel line is reported and
\* dropped (continue); any other line becomes the new head of the list.
\* assert(end >= begin) aborts the debug build.
GetRangesLine ==
  /\ pc = "getline"
  /\ lineno <= Len(maps)
  /\ LET line == maps[lineno]
         t    == LineTokens(line)
         node == MakeNode(line, lineno)
     IN  IF IsKernelRange(t.range_str)
         THEN /\ out' = out \o Debug(<<Ev("debug_entry", U64Zero, lineno)>>)
                            \o <<Ev("skip_kernel", U64Zero, lineno)>>
              /\ lineno' = lineno + 1
              /\ UNCHANGED <<ranges, errno, exit, pc>>
         ELSE IF ~ndebug /\ ~U64Le(node.begin, node.end)
         THEN /\ out' = out \o <<Ev("debug_entry", U64Zero, lineno),
                                  Ev("assert_failed", U64Zero, lineno)>>
              /\ errno' = IF node.range THEN ERANGE ELSE errno
              /\ exit' = [how |-> "abort", code |-> 0]
              /\ pc' = "exited"
              /\ UNCHANGED <<ranges, lineno>>
         ELSE /\ out' = out \o Debug(<<Ev("debug_entry", U64Zero, lineno),
                                       Ev("debug_range", node.begin, lineno)>>)
              /\ errno' = IF node.range THEN ERANGE ELSE errno
              /\ ranges' = <<node>> \o ranges
              /\ lineno' = lineno + 1
              /\ UNCHANGED <<exit, pc>>
  /\ UNCHANGED <<ndebug, argv, quiet_mode, canary, canary_writes, mem_fd,
                 mem_opens, mem, maps_fp, maps_opens, maps, rr, itr, addr,
                 data, ret, reads>>

\* End of input: report errno when it is set, return the head.  The
\* stream is not closed.
GetRangesReturn ==
  /\ pc = "getline"
  /\ lineno > Len(maps)
  /\ out' = IF errno # 0 THEN Append(out, Ev("maps_error", U64Zero, errno)) ELSE out
  /\ rr' = 1
  /\ pc' = "scan"
  /\ UNCHANGED <<ndebug, argv, quiet_mode, canary, canary_writes, errno, exit,
                 mem_fd, mem_opens, mem, maps_fp, maps_opens, maps, lineno,
                 ranges, itr, addr, data, ret, reads>>

\* ---------------------------------------------------------- scan_range
\* rr = rr->next->next: a cursor that steps over a range.
NextRange_Skip(r) ==
  r + 2

\* rr = rr->next.
NextRange(r) ==
  r + 1

\* The head of scan_range: a range that fails is_read is reported as
\* ignored and main moves on; any other is announced and its loop starts.
ScanRange ==
  /\ pc = "scan"
  /\ rr <= Len(ranges)
  /\ IF ~is_read(ranges[rr])
     THEN /\ out' = Append(out, Ev("ignoring", ranges[rr].begin, rr))
          /\ rr' = NextRange(rr)
          /\ UNCHANGED <<pc, itr>>
     ELSE /\ out' = Append(out, Ev("scanning", ranges[rr].begin, rr))
          /\ itr' = U64Zero
          /\ pc' = "loop"
          /\ UNCHANGED rr
  /\ UNCHANGED <<ndebug, argv, quiet_mode, canary, canary_writes, errno, exit,
                 mem_fd, mem_opens, mem, maps_fp, maps_opens, maps, lineno,
                 ranges, addr, data, ret, reads>>

\* The loop condition of scan_range.
LoopCond(i, range) ==
  U64Lt(i, range.size)

\* One iteration of the loop: compute addr, pread 8 bytes into the zeroed
\* data, print addr when the read returned more than 0 and data is the
\* canary.
ScanRead ==
  /\ pc = "loop"
  /\ LoopCond(itr, ranges[rr])
  /\ \E r \in PreadReturns :
       LET a   == ScanAddr(ranges[rr], itr)
           off == PreadOffset(ranges[rr], itr)
           d   == IF r > 0 THEN LowBytes(mem[off], r) ELSE U64Zero
       IN  /\ addr' = a
           /\ ret' = r
           /\ data' = d
           /\ errno' = IF r < 0 THEN EIO ELSE errno
           /\ reads' = Append(reads, [rr |-> rr, itr |-> itr, off |-> off])
           /\ out' = IF IsMatch(r, d, canary)
                     THEN Append(out, Ev("found", a, rr))
                     ELSE out
  /\ itr' = U64Add(itr, U64OfNat(WordBytes))
  /\ UNCHANGED <<pc, ndebug, argv, quiet_mode, canary, canary_writes, exit,
                 mem_fd, mem_opens, mem, maps_fp, maps_opens, maps, lineno,
                 ranges, rr>>

\* The loop is over: scan_range returns and main moves to the next range.
ScanRangeDone ==
  /\ pc = "loop"
  /\ ~LoopCond(itr, ranges[rr])
  /\ rr' = NextRange(rr)
  /\ pc' = "scan"
  /\ UNCHANGED <<ndebug, argv, quiet_mode, canary, canary_writes, errno, exit,
                 out, mem_fd, mem_opens, mem, maps_fp, maps_opens, maps,
                 lineno, ranges, itr, addr, data, ret, reads>>

\* The list is exhausted: main returns 0.  Neither handle was closed.
MainReturn ==
  /\ pc = "scan"
  /\ rr > Len(ranges)
  /\ exit' = Exited(0)
  /\ pc' = "exited"
  /\ UNCHANGED <<ndebug, argv, quiet_mode, canary, canary_writes, errno, out,
                 mem_fd, mem_opens, mem, maps_fp, maps_opens, maps, lineno,
                 ranges, rr, itr, addr, data, ret, reads>>

Next ==
  \/ ParseArgs
  \/ ReadCanary
  \/ QuietMode
  \/ ScanMode
  \/ GetRangesOpen
  \/ GetRangesLine
  \/ GetRangesReturn
  \/ ScanRange
  \/ ScanRead
  \/ ScanRangeDone
  \/ MainReturn

Spec == Init /\ [][Next]_vars

\* ============================================================== claims
\* The events of out that open the treatment of a range.
ScanEvents ==
  SelectSeq(out, LAMBDA e : e.ev \in {"scanning", "ignoring"})

\* How often event e was printed.
Count(e) ==
  Cardinality({ i \in DOMAIN out : out[i] = e })

\* The preads issued for range r.
ReadsOf(r) ==
  { i \in DOMAIN reads : reads[i].rr = r }

\* main has received the list and is, or was, walking it.
Scanning ==
  rr >= 1

\* The first character of line n of the map source.
FirstChar(n) ==
  maps[n][1]

KernelLine(n) ==
  FirstChar(n) \in {"F", "f"}

\* The filter as the specification words it: the permission token starts
\* with r and (begin & 0x7ff0000000000000) # 0x7ff0000000000000.
Eligible(range) ==
  /\ Head(range.perms) = "r"
  /\ ~(range.begin[4] \in {32752 + n : n \in 0..15} \cup {65520 + n : n \in 0..15})

\* Address a is an 8-byte-aligned position base + k*8, k*8 < size, of range.
InRegion(a, range) ==
  /\ U64Le(range.begin, a)
  /\ U64Lt(U64Sub(a, range.begin), range.size)
  /\ U64Sub(a, range.begin)[1] % 8 = 0

\* The iteration scan_range has just run in the current range, as a byte
\* offset into it.
JustRead ==
  pc = "loop" /\ itr # U64Zero

LastOffset ==
  U64Sub(itr, U64OfNat(8))

\* The 64-bit value a string of at most 16 hexadecimal digits denotes.
RECURSIVE ExactHexAcc(_, _)
ExactHexAcc(digits, acc) ==
  IF digits = <<>> THEN acc
  ELSE ExactHexAcc(Tail(digits),
                   U64Add(U64MulSmall(acc, 16), U64OfNat(XDigitVal(Head(digits)))))

ExactHex(s) ==
  ExactHexAcc(s, U64Zero)

\* C1: when the word at base_address + k*8 of an eligible region is the
\* canary and the read of that iteration returns 8 bytes, that read is
\* issued at base_address + k*8 and that address is printed exactly once.
C1_MatchReportedAtItsAddress ==
  JustRead =>
    LET a == U64Add(ranges[rr].begin, LastOffset)
    IN  (a \in MemAddrs /\ mem[a] = canary /\ ret = 8) =>
          /\ reads[Len(reads)].off = a
          /\ Count(Ev("found", a, rr)) = 1

\* C2: an eligible region none of whose aligned words is the canary gets no
\* match printed, whatever the rest of memory holds.
C2_NoMatchWithoutCanaryInRegion ==
  \A r \in DOMAIN ranges :
    ( /\ Scanning
      /\ Eligible(ranges[r])
      /\ \A a \in MemAddrs : InRegion(a, ranges[r]) => mem[a] # canary )
    => \A i \in DOMAIN out : ~(out[i].ev = "found" /\ out[i].idx = r)

\* C3: a region that is not readable or lies in the reserved high range is
\* never read, gets no match, is reported once as ignored, and the run goes
\* on: it ends with status 0 after every region of the list was treated.
C3_FilteredRegionNeverRead ==
  \A r \in DOMAIN ranges :
    ~Eligible(ranges[r]) =>
      /\ ReadsOf(r) = {}
      /\ \A i \in DOMAIN out :
           out[i].idx = r => out[i].ev \notin {"found", "scanning"}
      /\ rr > r => Count(Ev("ignoring", ranges[r].begin, r)) = 1
      /\ Scanning => exit \in {Running, Exited(0)}
      /\ (Scanning /\ pc = "exited") =>
           \A q \in DOMAIN ranges : \E i \in DOMAIN ScanEvents : ScanEvents[i].idx = q

C3_Witness ==
  /\ pc = "exited"
  /\ Len(ranges) = 2
  /\ Head(ranges[1].perms) = "r" /\ ~Eligible(ranges[1])
  /\ Count(Ev("ignoring", ranges[1].begin, 1)) = 1
  /\ \E i \in DOMAIN out : out[i].ev = "found" /\ out[i].idx = 2

\* C4: the list holds no region built from a line whose start address
\* begins with F or f, and every other line read so far has exactly one
\* region in the list, also after lines that were dropped.
C4_KernelLinesDropped ==
  /\ \A i \in DOMAIN ranges :
       /\ ~KernelLine(ranges[i].src)
       /\ ranges[i].begin[4] \div 4096 # 15
  /\ \A n \in DOMAIN maps :
       n < lineno =>
         Cardinality({ i \in DOMAIN ranges : ranges[i].src = n })
           = IF KernelLine(n) THEN 0 ELSE 1
  /\ Scanning => lineno = Len(maps) + 1

C4_Witness ==
  /\ pc = "scan"
  /\ Len(maps) = 2
  /\ KernelLine(1) /\ ~KernelLine(2)
  /\ Len(ranges) = 1 /\ ranges[1].src = 2

\* What C5 calls a usage error: more than one argument, an argument that
\* does not start with a dash, a flag that is neither -h nor -q.
UsageError(args) ==
  \/ Len(args) > 1
  \/ /\ Len(args) = 1
     /\ \/ Head(args[1]) # "-"
        \/ args[1] \notin { <<"-", "h">>, <<"-", "q">> }

\* C5: a usage error ends the process with a non-zero exit status, and
\* nothing is enumerated or scanned.
C5_UsageErrorFails ==
  (UsageError(argv) /\ pc # "args") =>
    /\ pc = "exited"
    /\ exit.how = "exit" /\ exit.code # 0
    /\ maps_opens = 0 /\ mem_opens = 0 /\ reads = <<>>

\* C6: a read that fails or returns fewer than 8 bytes prints no address
\* and does not end the scan.
C6_ShortReadIsNoMatch ==
  (JustRead /\ ret < 8) =>
    /\ ~(out # <<>> /\ out[Len(out)] = Ev("found", addr, rr))
    /\ exit = Running

\* C7: with the single argument -q the process prints the canary and
\* nothing else, exits with status 0, and never opens the memory map or the
\* memory handle, reads nothing and scans nothing.
C7_QuietModeOnlyPrints ==
  argv = << <<"-", "q">> >> =>
    /\ maps_opens = 0 /\ mem_opens = 0
    /\ reads = <<>> /\ ranges = <<>> /\ ~Scanning
    /\ pc \in {"args", "canary", "mode", "exited"}
    /\ pc = "exited" =>
         /\ canary \in CanaryValues
         /\ out = <<Ev("canary_quiet", canary, 0)>>
         /\ exit = Exited(0)

C7_Witness ==
  /\ argv = << <<"-", "q">> >>
  /\ pc = "exited"
  /\ out = <<Ev("canary_quiet", canary, 0)>>

\* C8: every region of the list has the start its line states as its
\* base, the difference of the stated end and start as its size, and an
\* end not below its base.
C8_SizeIsEndMinusStart ==
  \A i \in DOMAIN ranges :
    LET t == LineTokens(maps[ranges[i].src])
        s == ExactHex(t.begin)
        e == ExactHex(t.end)
    IN  /\ ranges[i].begin = s
        /\ ranges[i].size = U64Sub(e, s)
        /\ U64Le(ranges[i].begin, e)

\* C9: each source is opened at most once, and neither is still open when
\* the process has ended.
C9_HandlesReleased ==
  /\ maps_opens <= 1
  /\ mem_opens <= 1
  /\ pc = "exited" => (mem_fd # "open" /\ maps_fp # "open")

\* The number of 8-byte strides that cover size bytes (sizes below 2^16).
Strides(size) ==
  (size[1] + 7) \div 8

\* C10: the canary is assigned once, before any region is treated, and
\* keeps the value printed first; when the first region is treated the map
\* source has been read to its end; the regions are treated in the order
\* of the list, each with all its reads before the next begins, and all of
\* them before main returns.
C10_CanaryThenEnumerateThenScanInOrder ==
  /\ canary_writes <= 1
  /\ Scanning =>
       /\ canary_writes = 1
       /\ out[1] = Ev("canary", canary, 0)
       /\ lineno = Len(maps) + 1
       /\ Len(ranges) = Cardinality({ n \in DOMAIN maps : ~KernelLine(n) })
       /\ \A i \in DOMAIN ScanEvents :
            ScanEvents[i].idx = i /\ ScanEvents[i].val = ranges[i].begin
       /\ Len(ScanEvents) = IF pc = "loop" THEN rr ELSE rr - 1
       /\ pc = "exited" => Len(ScanEvents) = Len(ranges)
       /\ \A i, j \in DOMAIN reads : i < j => reads[i].rr <= reads[j].rr
       /\ \A r \in DOMAIN ranges :
            (r < rr /\ r \in DOMAIN ScanEvents /\ ScanEvents[r].ev = "scanning")
              => Cardinality(ReadsOf(r)) = Strides(ranges[r].size)
  /\ ~Scanning => (reads = <<>> /\ ScanEvents = <<>>)

C10_Witness ==
  /\ pc = "exited"
  /\ Len(ranges) = 2
  /\ ScanEvents[1].ev = "scanning" /\ ScanEvents[2].ev = "scanning"
  /\ Cardinality(ReadsOf(1)) + Cardinality(ReadsOf(2)) = 3
  /\ \E i \in DOMAIN out : out[i].ev = "found" /\ out[i].idx = 2

=============================================================================
